---- MODULE Spec2Model ----
(***************************************************************************)
(* Model of app.py: a Streamlit script that extracts the text of uploaded  *)
(* PDFs page by page, translates each page through a remote model and      *)
(* assembles one Word document.                                            *)
(*                                                                         *)
(* A text is a sequence of one-character strings.  The characters "\r",    *)
(* "\n", " " and "\t" are the whitespace the code treats specially; every  *)
(* other token is an ordinary character.                                   *)
(***************************************************************************)
EXTENDS Integers, Sequences, FiniteSets, TLC

VARIABLES
    \* ---- the script run (app.py:74-158) ----
    pc,            \* position of the script
    api_key,       \* st.secrets["OPENAI_API_KEY"] as stored (before .strip())
    run_btn,       \* value of st.button for this run
    uploads,       \* value of st.file_uploader: sequence of [name, pdf]
    pdf_cache,     \* list of (name, pages)
    total_pages,
    results,       \* list of (filename, page_outputs)
    page_outputs,  \* list of (page_label, translated) of the current file
    fidx,          \* position of "for filename, pages in pdf_cache" (1-based)
    pidx,          \* position of "for i, heb in enumerate(pages, start=1)"
    done,
    prog,          \* value shown by the progress bar, a fraction [num, den];
                   \* den = 0 while no bar exists
    in_flight,     \* remote calls issued and not yet returned
    n_extract,     \* calls of extract_pdf_pages_text so far
    n_remote,      \* calls of client.responses.create so far
    order,         \* pages decided so far, as <<file index, page index>>
    docx_bytes,    \* build_docx's result, or NoDocx
    download,      \* whether st.download_button was rendered
    ui,            \* st.error / st.warning / st.success message, or None
    error,         \* the uncaught exception that ended the script, or NoError
    \* ---- direct calls of the pure functions ----
    nw_pc, nw_in, nw_out, nw_prev,    \* normalize_whitespace
    bd_pc, bd_items, bd_out           \* build_docx

runVars == <<pc, api_key, run_btn, uploads, pdf_cache, total_pages, results,
             page_outputs, fidx, pidx, done, prog, in_flight, n_extract,
             n_remote, order, docx_bytes, download, ui, error>>
nwVars  == <<nw_pc, nw_in, nw_out, nw_prev>>
bdVars  == <<bd_pc, bd_items, bd_out>>
vars    == <<runVars, nwVars, bdVars>>

None == "None"

\* ------------------------------------------------------------- bounds
MaxFiles    == 2    \* uploaded files in one run
MaxNormLen  == 5    \* length of a text handed to normalize_whitespace
MaxParaLen  == 6    \* length of a translated text handed to build_docx
MaxDocFiles == 2    \* file entries handed to build_docx

\* ------------------------------------------------------ text helpers
CR  == "\r"
LF  == "\n"
SP  == " "
TAB == "\t"

\* The characters str.strip() removes (within the model's alphabet).
Whitespace == {CR, LF, SP, TAB}

RECURSIVE SeqsUpTo(_, _)
SeqsUpTo(S, n) ==
    IF n = 0 THEN {<<>>}
    ELSE LET shorter == SeqsUpTo(S, n - 1)
         IN  shorter \cup {<<c>> \o s : c \in S, s \in {t \in shorter : Len(t) = n - 1}}

DropFirst(t, k) == SubSeq(t, k + 1, Len(t))

\* Length of the longest prefix of t made of characters of S.
RECURSIVE RunLen(_, _)
RunLen(t, S) ==
    IF t = <<>> \/ t[1] \notin S THEN 0 ELSE 1 + RunLen(Tail(t), S)

\* str.replace("\r\n", "\n"): left to right, non-overlapping.
RECURSIVE ReplaceCRLF(_)
ReplaceCRLF(t) ==
    IF t = <<>> THEN <<>>
    ELSE IF Len(t) >= 2 /\ t[1] = CR /\ t[2] = LF
         THEN <<LF>> \o ReplaceCRLF(DropFirst(t, 2))
         ELSE <<t[1]>> \o ReplaceCRLF(Tail(t))

\* str.replace("\r", "\n")
ReplaceCR(t) == [i \in 1..Len(t) |-> IF t[i] = CR THEN LF ELSE t[i]]

\* Mutant: the pattern r" +" (tabs are not collapsed).
RECURSIVE CollapseBlanks_SpacesOnly(_)
CollapseBlanks_SpacesOnly(t) ==
    IF t = <<>> THEN <<>>
    ELSE IF t[1] = SP
         THEN <<SP>> \o CollapseBlanks_SpacesOnly(DropFirst(t, RunLen(t, {SP})))
         ELSE <<t[1]>> \o CollapseBlanks_SpacesOnly(Tail(t))

\* re.sub(r"[ \t]+", " ", text)
RECURSIVE CollapseBlanks(_)
CollapseBlanks(t) ==
    IF t = <<>> THEN <<>>
    ELSE IF t[1] \in {SP, TAB}
         THEN <<SP>> \o CollapseBlanks(DropFirst(t, RunLen(t, {SP, TAB})))
         ELSE <<t[1]>> \o CollapseBlanks(Tail(t))

\* re.sub(r"\n{3,}", "\n\n", text)
RECURSIVE CollapseNewlines(_)
CollapseNewlines(t) ==
    IF t = <<>> THEN <<>>
    ELSE IF t[1] = LF
         THEN LET n == RunLen(t, {LF})
              IN  (IF n >= 3 THEN <<LF, LF>> ELSE SubSeq(t, 1, n))
                      \o CollapseNewlines(DropFirst(t, n))
         ELSE <<t[1]>> \o CollapseNewlines(Tail(t))

RECURSIVE LStrip(_)
LStrip(t) == IF t # <<>> /\ t[1] \in Whitespace THEN LStrip(Tail(t)) ELSE t

RECURSIVE RStrip(_)
RStrip(t) ==
    IF t # <<>> /\ t[Len(t)] \in Whitespace THEN RStrip(SubSeq(t, 1, Len(t) - 1)) ELSE t

\* str.strip()
Strip(t) == RStrip(LStrip(t))

normalize_whitespace(text) ==
    Strip(CollapseNewlines(CollapseBlanks(ReplaceCR(ReplaceCRLF(text)))))


\* ---------------------------------------------------------- build_docx
\* Mutant: split("\n") (every line feed separates paragraphs).
RECURSIVE SplitBlank_SingleLF(_)
SplitBlank_SingleLF(t) ==
    LET cuts == {i \in 1..Len(t) : t[i] = LF}
    IN  IF cuts = {} THEN <<t>>
        ELSE LET i == CHOOSE c \in cuts : \A d \in cuts : c <= d
             IN  <<SubSeq(t, 1, i - 1)>> \o SplitBlank_SingleLF(DropFirst(t, i))

\* str.split("\n\n"): cuts at each occurrence of two line feeds, scanning left
\* to right without overlap; always returns at least one segment.
RECURSIVE SplitBlank(_)
SplitBlank(t) ==
    LET cuts == {i \in 1..(Len(t) - 1) : t[i] = LF /\ t[i + 1] = LF}
    IN  IF cuts = {} THEN <<t>>
        ELSE LET i == CHOOSE c \in cuts : \A d \in cuts : c <= d
             IN  <<SubSeq(t, 1, i - 1)>> \o SplitBlank(DropFirst(t, i + 1))

RECURSIVE NonEmptyStripped(_)
NonEmptyStripped(segs) ==
    IF segs = <<>> THEN <<>>
    ELSE LET p == Strip(Head(segs))
         IN  (IF p # <<>> THEN <<p>> ELSE <<>>) \o NonEmptyStripped(Tail(segs))

\* The paragraphs build_docx adds for one translated text (app.py:41-44).
Paragraphs(translated) == NonEmptyStripped(SplitBlank(translated))

Heading(label, level) == [kind |-> "heading", level |-> level, text |-> label]
Paragraph(p)          == [kind |-> "paragraph", level |-> 0, text |-> p]
PageBreak             == [kind |-> "page_break", level |-> 0, text |-> <<>>]

PageBlocks(page) ==
    LET paras == Paragraphs(page[2])
    IN  <<Heading(page[1], 2)>> \o [k \in 1..Len(paras) |-> Paragraph(paras[k])]

RECURSIVE PagesBlocks(_)
PagesBlocks(pages) ==
    IF pages = <<>> THEN <<>> ELSE PageBlocks(Head(pages)) \o PagesBlocks(Tail(pages))

\* Mutant: doc.add_page_break() indented into the page loop.
RECURSIVE PagesBlocks_BreakEach(_)
PagesBlocks_BreakEach(pages) ==
    IF pages = <<>> THEN <<>>
    ELSE PageBlocks(Head(pages)) \o <<PageBreak>> \o PagesBlocks_BreakEach(Tail(pages))

FileBlocks_BreakPerPage(item) == <<Heading(item[1], 1)>> \o PagesBlocks_BreakEach(item[2])

FileBlocks(item) == <<Heading(item[1], 1)>> \o PagesBlocks(item[2]) \o <<PageBreak>>

RECURSIVE ItemsBlocks(_)
ItemsBlocks(items) ==
    IF items = <<>> THEN <<>> ELSE FileBlocks(Head(items)) \o ItemsBlocks(Tail(items))

\* The document body, block by block, with the Normal style the code sets.
build_docx(items) == [font |-> "Calibri", size |-> 11, body |-> ItemsBlocks(items)]

\* f"Page {i}"
PageLabel(i) == <<"Page", i>>

\* ------------------------------------------------- the script's inputs
Names == {"F1", "F2"}

\* Page texts as page.get_text("text") returns them.
RawEmpty == <<>>
RawShort == <<SP, "a", "b", "c", "d", "e", "f", "g", "h", "i", LF>>
RawLong  == <<"a", "b", "c", "d", "e", SP, TAB, "f", "g", "h", "i", CR, LF>>

\* What fitz.open finds in an upload: the page texts of a document, or bytes
\* that are no PDF (valid = FALSE).
PageLists == {<<>>, <<RawLong>>, <<RawShort, RawLong>>, <<RawLong, RawEmpty>>,
              <<RawLong, RawLong>>}

PdfBytes == [valid : {TRUE}, pages : PageLists] \cup {[valid |-> FALSE, pages |-> <<>>]}

UploadedFile == [name : Names, pdf : PdfBytes]

UploadLists == SeqsUpTo(UploadedFile, MaxFiles)

\* st.secrets.get("OPENAI_API_KEY", "") before .strip()
ApiKeys == {<<>>, <<SP, LF>>, <<SP, "k", LF>>}

\* resp.output_text: None, or a text
OutputTexts == {[is_none |-> TRUE, text |-> <<>>],
                [is_none |-> FALSE, text |-> <<LF, "A", LF, LF, "B", SP>>]}

MinTextLen == 10

\* app.py:136-139 (the source's typographic apostrophe is written ').
Placeholder ==
    <<"[No selectable text detected on this page.]", LF, LF,
      "If this PDF page is a scanned image, you'll need Hebrew OCR added to the app.">>

Max(a, b) == IF a >= b THEN a ELSE b

\* Mutant: the bar is updated before done is incremented.
Progress_Stale(d, total) ==
    LET den == Max(total, 1)
    IN  IF d - 1 > den THEN [num |-> 1, den |-> 1] ELSE [num |-> d - 1, den |-> den]

\* min(done / max(total_pages, 1), 1.0), as a fraction
Progress(d, total) ==
    LET den == Max(total, 1)
    IN  IF d > den THEN [num |-> 1, den |-> 1] ELSE [num |-> d, den |-> den]

\* extract_pdf_pages_text: the normalized text of every page, or the exception
\* fitz.open raises.
extract_pdf_pages_text(pdf_bytes) ==
    IF ~pdf_bytes.valid
    THEN [ok |-> FALSE, pages |-> <<>>]
    ELSE [ok |-> TRUE,
          pages |-> [i \in 1..Len(pdf_bytes.pages) |->
                        normalize_whitespace(pdf_bytes.pages[i])]]

\* An uncaught exception as Streamlit shows it: its type, the functions of its
\* traceback and the values the script attached to it.  The script catches and
\* wraps nothing, so it attaches none.
Uncaught(exc, frames) == [exc |-> exc, traceback |-> frames, context |-> {}]


NoError == [exc |-> None, traceback |-> <<>>, context |-> {}]
NoDocx  == [font |-> None, size |-> 0, body |-> <<>>]
NoProg  == [num |-> 0, den |-> 0]

\* ------------------------------------------------------ the script run
RunInit ==
    /\ pc = "start"
    /\ api_key \in ApiKeys
    /\ run_btn \in BOOLEAN
    /\ uploads \in UploadLists
    /\ pdf_cache = <<>>
    /\ total_pages = 0
    /\ results = <<>>
    /\ page_outputs = <<>>
    /\ fidx = 0
    /\ pidx = 0
    /\ done = 0
    /\ prog = NoProg
    /\ in_flight = 0
    /\ n_extract = 0
    /\ n_remote = 0
    /\ order = <<>>
    /\ docx_bytes = NoDocx
    /\ download = FALSE
    /\ ui = None
    /\ error = NoError

\* Nothing of the script has run: the state of the run's variables while a
\* pure function is called directly.
RunIdle ==
    /\ pc = "start"
    /\ api_key = <<>>
    /\ run_btn = FALSE
    /\ uploads = <<>>
    /\ pdf_cache = <<>>
    /\ total_pages = 0
    /\ results = <<>>
    /\ page_outputs = <<>>
    /\ fidx = 0
    /\ pidx = 0
    /\ done = 0
    /\ prog = NoProg
    /\ in_flight = 0
    /\ n_extract = 0
    /\ n_remote = 0
    /\ order = <<>>
    /\ docx_bytes = NoDocx
    /\ download = FALSE
    /\ ui = None
    /\ error = NoError

NwIdle == nw_pc = "idle" /\ nw_in = <<>> /\ nw_out = <<>> /\ nw_prev = <<>>
BdIdle == bd_pc = "idle" /\ bd_items = <<>> /\ bd_out = NoDocx

\* Mutant: the secret is tested without .strip().
CheckApiKey_NoStrip ==
    /\ pc = "start"
    /\ IF api_key = <<>>
       THEN /\ ui' = "Missing OPENAI_API_KEY"
            /\ pc' = "stopped"
       ELSE /\ ui' = ui
            /\ pc' = "widgets"
    /\ UNCHANGED <<api_key, run_btn, uploads, pdf_cache, total_pages, results,
                   page_outputs, fidx, pidx, done, prog, in_flight, n_extract,
                   n_remote, order, docx_bytes, download, error>>
    /\ UNCHANGED <<nwVars, bdVars>>

\* app.py:79-84: the credential check that opens the script.
CheckApiKey ==
    /\ pc = "start"
    /\ IF Strip(api_key) = <<>>
       THEN /\ ui' = "Missing OPENAI_API_KEY"
            /\ pc' = "stopped"
       ELSE /\ ui' = ui
            /\ pc' = "widgets"
    /\ UNCHANGED <<api_key, run_btn, uploads, pdf_cache, total_pages, results,
                   page_outputs, fidx, pidx, done, prog, in_flight, n_extract,
                   n_remote, order, docx_bytes, download, error>>
    /\ UNCHANGED <<nwVars, bdVars>>

\* app.py:86-120: the widgets, the run button and the empty-upload guard.
RunButton ==
    /\ pc = "widgets"
    /\ IF ~run_btn
       THEN pc' = "end" /\ ui' = ui
       ELSE IF uploads = <<>>
            THEN pc' = "stopped" /\ ui' = "Upload at least one PDF."
            ELSE pc' = "extract" /\ ui' = ui
    /\ results' = <<>>
    /\ total_pages' = 0
    /\ pdf_cache' = <<>>
    /\ UNCHANGED <<api_key, run_btn, uploads, page_outputs, fidx, pidx, done,
                   prog, in_flight, n_extract, n_remote, order, docx_bytes,
                   download, error>>
    /\ UNCHANGED <<nwVars, bdVars>>

\* app.py:121-125: one iteration of "for up in uploads".  The script has no
\* try/except: an exception of fitz.open ends the run.
ExtractFile ==
    /\ pc = "extract"
    /\ Len(pdf_cache) < Len(uploads)
    /\ LET up == uploads[Len(pdf_cache) + 1]
           r  == extract_pdf_pages_text(up.pdf)
       IN  /\ n_extract' = n_extract + 1
           /\ IF r.ok
              THEN /\ pdf_cache' = Append(pdf_cache, <<up.name, r.pages>>)
                   /\ total_pages' = total_pages + Len(r.pages)
                   /\ UNCHANGED <<pc, error>>
              ELSE /\ error' = Uncaught("fitz.FileDataError",
                                        <<"<module>", "extract_pdf_pages_text">>)
                   /\ pc' = "failed"
                   /\ UNCHANGED <<pdf_cache, total_pages>>
    /\ UNCHANGED <<api_key, run_btn, uploads, results, page_outputs, fidx, pidx,
                   done, prog, in_flight, n_remote, order, docx_bytes, download, ui>>
    /\ UNCHANGED <<nwVars, bdVars>>

\* Mutant: the translation loop is entered once one file is extracted.
StartTranslation_Early ==
    /\ pc = "extract"
    /\ Len(pdf_cache) >= 1
    /\ prog' = [num |-> 0, den |-> 1]
    /\ done' = 0
    /\ fidx' = 1
    /\ pidx' = 1
    /\ page_outputs' = <<>>
    /\ pc' = "translate"
    /\ UNCHANGED <<api_key, run_btn, uploads, pdf_cache, total_pages, results,
                   in_flight, n_extract, n_remote, order, docx_bytes, download,
                   ui, error>>
    /\ UNCHANGED <<nwVars, bdVars>>

\* app.py:127-131: the progress bar, done = 0 and the first file of the
\* translation loop.
StartTranslation ==
    /\ pc = "extract"
    /\ Len(pdf_cache) = Len(uploads)
    /\ prog' = [num |-> 0, den |-> 1]
    /\ done' = 0
    /\ fidx' = 1
    /\ pidx' = 1
    /\ page_outputs' = <<>>
    /\ pc' = "translate"
    /\ UNCHANGED <<api_key, run_btn, uploads, pdf_cache, total_pages, results,
                   in_flight, n_extract, n_remote, order, docx_bytes, download,
                   ui, error>>
    /\ UNCHANGED <<nwVars, bdVars>>


\* Mutant: only an empty page counts as having no text.
NeedsOcr_EmptyOnly(heb) == Strip(heb) = <<>>

\* app.py:135: the page has too little text to translate.
NeedsOcr(heb) == Len(Strip(heb)) < MinTextLen

\* The page the translation loop is at.
CurrentPages == pdf_cache[fidx][2]
AtPage == pc = "translate" /\ fidx <= Len(pdf_cache) /\ pidx <= Len(CurrentPages)

\* Mutant: a page whose translation is empty is left out of page_outputs.
CompletePage_SkipEmpty(translated) ==
    /\ page_outputs' = IF translated = <<>> THEN page_outputs
                       ELSE Append(page_outputs, <<PageLabel(pidx), translated>>)
    /\ done' = done + 1
    /\ prog' = Progress(done + 1, total_pages)
    /\ order' = Append(order, <<fidx, pidx>>)
    /\ pidx' = pidx + 1

\* app.py:143-146: record the page's result and advance the progress bar.
CompletePage(translated) ==
    /\ page_outputs' = Append(page_outputs, <<PageLabel(pidx), translated>>)
    /\ done' = done + 1
    /\ prog' = Progress(done + 1, total_pages)
    /\ order' = Append(order, <<fidx, pidx>>)
    /\ pidx' = pidx + 1

\* app.py:132-146 with translate_text (52-66): one page up to the point where
\* it is decided without the remote service, or the remote call is issued.
TranslatePage ==
    /\ AtPage
    /\ LET heb == CurrentPages[pidx]
       IN  IF NeedsOcr(heb)
           THEN /\ CompletePage(Placeholder)
                /\ UNCHANGED <<pc, in_flight, n_remote>>
           ELSE IF Strip(heb) = <<>>
                THEN /\ CompletePage(<<>>)
                     /\ UNCHANGED <<pc, in_flight, n_remote>>
                ELSE /\ pc' = "remote"
                     /\ in_flight' = in_flight + 1
                     /\ n_remote' = n_remote + 1
                     /\ UNCHANGED <<page_outputs, done, prog, order, pidx>>
    /\ UNCHANGED <<api_key, run_btn, uploads, pdf_cache, total_pages, results,
                   fidx, n_extract, docx_bytes, download, ui, error>>
    /\ UNCHANGED <<nwVars, bdVars>>

\* app.py:67-71 and 143-146: client.responses.create returns.
RemoteReturn ==
    /\ pc = "remote"
    /\ \E resp \in OutputTexts :
          CompletePage(Strip(IF resp.is_none THEN <<>> ELSE resp.text))
    /\ in_flight' = in_flight - 1
    /\ pc' = "translate"
    /\ UNCHANGED <<api_key, run_btn, uploads, pdf_cache, total_pages, results,
                   fidx, n_extract, n_remote, docx_bytes, download, ui, error>>
    /\ UNCHANGED <<nwVars, bdVars>>

\* Mutant: the exception is caught, the page gets an empty translation and
\* the loop goes on.
RemoteFail_Continue ==
    /\ pc = "remote"
    /\ in_flight' = in_flight - 1
    /\ error' = Uncaught("openai.APIError", <<"<module>", "translate_text">>)
    /\ page_outputs' = Append(page_outputs, <<PageLabel(pidx), <<>>>>)
    /\ done' = done + 1
    /\ prog' = Progress(done + 1, total_pages)
    /\ order' = Append(order, <<fidx, pidx>>)
    /\ pidx' = pidx + 1
    /\ pc' = "translate"
    /\ UNCHANGED <<api_key, run_btn, uploads, pdf_cache, total_pages, results,
                   fidx, n_extract, n_remote, docx_bytes, download, ui>>
    /\ UNCHANGED <<nwVars, bdVars>>

\* app.py:67-70: client.responses.create raises; nothing catches it.
RemoteFail ==
    /\ pc = "remote"
    /\ in_flight' = in_flight - 1
    /\ error' = Uncaught("openai.APIError", <<"<module>", "translate_text">>)
    /\ pc' = "failed"
    /\ UNCHANGED <<api_key, run_btn, uploads, pdf_cache, total_pages, results,
                   page_outputs, fidx, pidx, done, prog, n_extract, n_remote,
                   order, docx_bytes, download, ui>>
    /\ UNCHANGED <<nwVars, bdVars>>

\* app.py:148 and 130-131: the file's pages are exhausted; its outputs join
\* results and the next file, if any, starts with an empty page_outputs.
EndFile ==
    /\ pc = "translate"
    /\ fidx <= Len(pdf_cache)
    /\ pidx > Len(CurrentPages)
    /\ results' = Append(results, <<pdf_cache[fidx][1], page_outputs>>)
    /\ fidx' = fidx + 1
    /\ pidx' = 1
    /\ page_outputs' = IF fidx < Len(pdf_cache) THEN <<>> ELSE page_outputs
    /\ UNCHANGED <<pc, api_key, run_btn, uploads, pdf_cache, total_pages, done,
                   prog, in_flight, n_extract, n_remote, order, docx_bytes,
                   download, ui, error>>
    /\ UNCHANGED <<nwVars, bdVars>>

\* app.py:150-158: assemble the document and offer it for download.
BuildDocx ==
    /\ pc = "translate"
    /\ fidx > Len(pdf_cache)
    /\ docx_bytes' = build_docx(results)
    /\ ui' = "Done."
    /\ download' = TRUE
    /\ pc' = "done"
    /\ UNCHANGED <<api_key, run_btn, uploads, pdf_cache, total_pages, results,
                   page_outputs, fidx, pidx, done, prog, in_flight, n_extract,
                   n_remote, order, error>>
    /\ UNCHANGED <<nwVars, bdVars>>

Init == RunInit /\ NwIdle /\ BdIdle

Next ==
    \/ CheckApiKey
    \/ RunButton
    \/ ExtractFile
    \/ StartTranslation
    \/ TranslatePage
    \/ RemoteReturn
    \/ RemoteFail
    \/ EndFile
    \/ BuildDocx

Spec == Init /\ [][Next]_vars


\* ------------------------------------- normalize_whitespace called alone
NormAlphabet == {CR, LF, SP, TAB, "a"}

NormInit ==
    /\ nw_pc = "ready"
    /\ nw_in \in SeqsUpTo(NormAlphabet, MaxNormLen)
    /\ nw_out = <<>>
    /\ nw_prev = <<>>

\* normalize_whitespace(T)
NormalizeOnce ==
    /\ nw_pc = "ready"
    /\ nw_out' = normalize_whitespace(nw_in)
    /\ nw_pc' = "once"
    /\ UNCHANGED <<nw_in, nw_prev>>
    /\ UNCHANGED <<runVars, bdVars>>

\* normalize_whitespace applied to its own result
NormalizeAgain ==
    /\ nw_pc = "once"
    /\ nw_prev' = nw_out
    /\ nw_out' = normalize_whitespace(nw_out)
    /\ nw_pc' = "twice"
    /\ UNCHANGED nw_in
    /\ UNCHANGED <<runVars, bdVars>>

NormNext == NormalizeOnce \/ NormalizeAgain

InitNorm == RunIdle /\ NormInit /\ BdIdle

SpecNorm == InitNorm /\ [][NormNext]_vars

\* --------------------------------------------- build_docx called alone
ParaAlphabet == {"a", "b", SP, LF}

\* "Para one\n\nPara two"
ParaExample == <<"P", "a", "r", "a", SP, "o", "n", "e", LF, LF,
                 "P", "a", "r", "a", SP, "t", "w", "o">>

SampleTexts == {<<"A">>, <<"B">>, <<"C">>, <<"A", LF, LF, "B">>}

LabelPages(texts) == [i \in 1..Len(texts) |-> <<PageLabel(i), texts[i]>>]

\* One file with one page holding any short text.
SinglePageItems ==
    {<< <<"F1", LabelPages(<<t>>)>> >> :
        t \in SeqsUpTo(ParaAlphabet, MaxParaLen) \cup {ParaExample}}

\* Lists of files of zero to two pages.
FileEntries == {<<n, LabelPages(ts)>> : n \in Names, ts \in SeqsUpTo(SampleTexts, 2)}

DocxInputs == SinglePageItems \cup SeqsUpTo(FileEntries, MaxDocFiles)

DocxInit ==
    /\ bd_pc = "ready"
    /\ bd_items \in DocxInputs
    /\ bd_out = NoDocx

CallBuildDocx ==
    /\ bd_pc = "ready"
    /\ bd_out' = build_docx(bd_items)
    /\ bd_pc' = "built"
    /\ UNCHANGED bd_items
    /\ UNCHANGED <<runVars, nwVars>>

DocxNext == CallBuildDocx

InitDocx == RunIdle /\ NwIdle /\ DocxInit

SpecDocx == InitDocx /\ [][DocxNext]_vars


\* ================================================================ claims

\* t holds n consecutive characters of S.
HasRun(t, S, n) ==
    \E i \in 1..(Len(t) - n + 1) : \A j \in i..(i + n - 1) : t[j] \in S

\* C9: normalize_whitespace is idempotent, and its result holds no carriage
\* return, no run of two or more spaces/tabs and no run of three or more line
\* feeds.
C9_NormalizeIdempotent ==
    /\ nw_pc \in {"once", "twice"} =>
          /\ \A i \in 1..Len(nw_out) : nw_out[i] # CR
          /\ ~HasRun(nw_out, {SP, TAB}, 2)
          /\ ~HasRun(nw_out, {LF}, 3)
    /\ nw_pc = "twice" => nw_out = nw_prev

\* A text with three line breaks in a row, which normalization changed to a
\* non-empty text, normalized twice.
C9_Witness ==
    /\ nw_pc = "twice"
    /\ HasRun(nw_in, {LF, CR}, 3)
    /\ nw_prev # nw_in
    /\ nw_prev # <<>>

\* The segments of t between maximal runs of two or more line feeds.
RECURSIVE RefSegments(_)
RefSegments(t) ==
    LET starts == {i \in 1..(Len(t) - 1) : t[i] = LF /\ t[i + 1] = LF}
    IN  IF starts = {} THEN <<t>>
        ELSE LET i == CHOOSE c \in starts : \A d \in starts : c <= d
                 n == RunLen(DropFirst(t, i - 1), {LF})
             IN  <<SubSeq(t, 1, i - 1)>> \o RefSegments(DropFirst(t, i + n - 1))

\* One paragraph per non-empty trimmed segment, in order.
RefParagraphs(t) ==
    LET segs    == RefSegments(t)
        trimmed == [k \in 1..Len(segs) |-> Strip(segs[k])]
    IN  SelectSeq(trimmed, LAMBDA p : p # <<>>)

IsParagraph(b) == b.kind = "paragraph"

\* The texts of the paragraph blocks of a document, in order.
ParagraphTexts(doc) ==
    LET ps == SelectSeq(doc.body, IsParagraph)
    IN  [k \in 1..Len(ps) |-> ps[k].text]

RemoveAt(t, i) == SubSeq(t, 1, i - 1) \o DropFirst(t, i)

\* The translated text of a one-file, one-page input of build_docx.
OnlyText == bd_items[1][2][1][2]
OnePage  == Len(bd_items) = 1 /\ Len(bd_items[1][2]) = 1

\* C8: build_docx emits one paragraph per non-empty trimmed segment between
\* runs of two or more line feeds, in order; a run of three or more line feeds
\* gives the paragraphs a shorter run gives; "Para one\n\nPara two" gives the
\* two paragraphs "Para one" and "Para two".
C8_ParagraphSplit ==
    (bd_pc = "built" /\ OnePage) =>
        /\ ParagraphTexts(bd_out) = RefParagraphs(OnlyText)
        /\ \A i \in 1..(Len(OnlyText) - 2) :
              (OnlyText[i] = LF /\ OnlyText[i + 1] = LF /\ OnlyText[i + 2] = LF) =>
                  ParagraphTexts(bd_out) = Paragraphs(RemoveAt(OnlyText, i))
        /\ OnlyText = ParaExample =>
              ParagraphTexts(bd_out) =
                  << <<"P", "a", "r", "a", SP, "o", "n", "e">>,
                     <<"P", "a", "r", "a", SP, "t", "w", "o">> >>

\* Two segments separated by three line feeds, assembled into two paragraphs.
C8_Witness ==
    /\ bd_pc = "built"
    /\ OnePage
    /\ OnlyText = <<"a", LF, LF, LF, "b", SP>>
    /\ ParagraphTexts(bd_out) = << <<"a">>, <<"b">> >>

\* Blocks of the first n pages of a file: a level-2 heading and the paragraphs.
RECURSIVE PagesSize(_, _)
PagesSize(pages, n) ==
    IF n = 0 THEN 0
    ELSE PagesSize(pages, n - 1) + 1 + Len(Paragraphs(pages[n][2]))

\* Blocks of a file: its heading, its pages, its page break.
FileSize(item) == 2 + PagesSize(item[2], Len(item[2]))

\* Position of the i-th file's heading.
RECURSIVE FileStart(_, _)
FileStart(items, i) ==
    IF i = 1 THEN 1 ELSE FileStart(items, i - 1) + FileSize(items[i - 1])

CountBlocks(body, kind, level) ==
    Cardinality({j \in 1..Len(body) : body[j].kind = kind /\ body[j].level = level})

RECURSIVE TotalPages(_)
TotalPages(items) ==
    IF items = <<>> THEN 0 ELSE Len(Head(items)[2]) + TotalPages(Tail(items))

\* C7: build_docx emits, for each file in order, a level-1 heading with the
\* file label, then for each page in order a level-2 heading with the page
\* label followed by the page's paragraphs, then one page break; there is one
\* level-1 heading and one page break per file and one level-2 heading per page.
C7_BlockOrder ==
    bd_pc = "built" =>
        LET body == bd_out.body
        IN  /\ Len(body) = FileStart(bd_items, Len(bd_items) + 1) - 1
            /\ CountBlocks(body, "heading", 1) = Len(bd_items)
            /\ CountBlocks(body, "page_break", 0) = Len(bd_items)
            /\ CountBlocks(body, "heading", 2) = TotalPages(bd_items)
            /\ \A i \in 1..Len(bd_items) :
                  LET s     == FileStart(bd_items, i)
                      pages == bd_items[i][2]
                  IN  /\ body[s].kind = "heading"
                      /\ body[s].level = 1
                      /\ body[s].text = bd_items[i][1]
                      /\ body[s + FileSize(bd_items[i]) - 1].kind = "page_break"
                      /\ \A k \in 1..Len(pages) :
                            LET ps    == s + 1 + PagesSize(pages, k - 1)
                                paras == Paragraphs(pages[k][2])
                            IN  /\ body[ps].kind = "heading"
                                /\ body[ps].level = 2
                                /\ body[ps].text = pages[k][1]
                                /\ \A m \in 1..Len(paras) :
                                      /\ body[ps + m].kind = "paragraph"
                                      /\ body[ps + m].text = paras[m]

\* F1 with pages A, B and F2 with page C, assembled into the ten blocks
\* H1 F1, H2 Page 1, A, H2 Page 2, B, break, H1 F2, H2 Page 1, C, break.
C7_Witness ==
    /\ bd_pc = "built"
    /\ bd_items = << <<"F1", << <<PageLabel(1), <<"A">> >>, <<PageLabel(2), <<"B">> >> >> >>,
                     <<"F2", << <<PageLabel(1), <<"C">> >> >> >> >>
    /\ bd_out.body =
          << [kind |-> "heading", level |-> 1, text |-> "F1"],
             [kind |-> "heading", level |-> 2, text |-> <<"Page", 1>>],
             [kind |-> "paragraph", level |-> 0, text |-> <<"A">>],
             [kind |-> "heading", level |-> 2, text |-> <<"Page", 2>>],
             [kind |-> "paragraph", level |-> 0, text |-> <<"B">>],
             [kind |-> "page_break", level |-> 0, text |-> <<>>],
             [kind |-> "heading", level |-> 1, text |-> "F2"],
             [kind |-> "heading", level |-> 2, text |-> <<"Page", 1>>],
             [kind |-> "paragraph", level |-> 0, text |-> <<"C">>],
             [kind |-> "page_break", level |-> 0, text |-> <<>>] >>


\* ------------------------------------------------ claims about the run

PagePairs(f, n) == [p \in 1..n |-> <<f, p>>]

\* The pages of the first f files of a cache as <<file, page>>, file by file.
RECURSIVE AllPagesUpTo(_, _)
AllPagesUpTo(cache, f) ==
    IF f = 0 THEN <<>>
    ELSE AllPagesUpTo(cache, f - 1) \o PagePairs(f, Len(cache[f][2]))

AllPages(cache) == AllPagesUpTo(cache, Len(cache))

\* The extracted text of page fp = <<file, page>>.
PageText(fp) == pdf_cache[fp[1]][2][fp[2]]

\* The texts a remote call can give a page.
RemoteTexts == {Strip(IF r.is_none THEN <<>> ELSE r.text) : r \in OutputTexts}

\* C1: in a completed run the structure handed to build_docx has one entry
\* per uploaded file, in upload order, and each entry has one (label, text)
\* pair per extracted page, in page order, labelled Page 1 .. Page n; empty
\* pages and empty translations are entries like the others.
C1_OneEntryPerPage ==
    pc = "done" =>
        /\ Len(results) = Len(uploads)
        /\ order = AllPages(pdf_cache)
        /\ \A i \in 1..Len(results) :
              /\ results[i][1] = uploads[i].name
              /\ Len(results[i][2]) = Len(uploads[i].pdf.pages)
              /\ Len(results[i][2]) = Len(pdf_cache[i][2])
              /\ \A k \in 1..Len(results[i][2]) :
                    /\ results[i][2][k][1] = <<"Page", k>>
                    /\ IF Len(pdf_cache[i][2][k]) < 10
                       THEN results[i][2][k][2] = Placeholder
                       ELSE results[i][2][k][2] \in RemoteTexts
        /\ CountBlocks(docx_bytes.body, "heading", 1) = Len(uploads)
        /\ CountBlocks(docx_bytes.body, "heading", 2) = Len(AllPages(pdf_cache))

\* A completed run of two files with an empty page and a page whose
\* translation came back empty.
C1_Witness ==
    /\ pc = "done"
    /\ Len(results) = 2
    /\ \E i \in 1..2 : \E k \in 1..Len(pdf_cache[i][2]) : pdf_cache[i][2][k] = <<>>
    /\ \E i \in 1..2 : \E k \in 1..Len(results[i][2]) : results[i][2][k][2] = <<>>

\* The result recorded for the j-th decided page.
DecidedResult(j) ==
    LET f == order[j][1]
        p == order[j][2]
    IN  IF f <= Len(results) THEN results[f][2][p][2] ELSE page_outputs[p][2]

LongPages ==
    {fp \in {AllPages(pdf_cache)[j] : j \in 1..Len(AllPages(pdf_cache))} :
        Len(Strip(PageText(fp))) >= 10}

\* C2: a page whose stripped text is shorter than 10 characters gets the
\* placeholder and no remote call; the remote calls of a run never outnumber
\* the pages of stripped length >= 10.
C2_PlaceholderNoCall ==
    /\ \A j \in 1..Len(order) :
          Len(Strip(PageText(order[j]))) < 10 => DecidedResult(j) = Placeholder
    /\ pc = "remote" => Len(Strip(PageText(<<fidx, pidx>>))) >= 10
    /\ n_remote <= Cardinality(LongPages)

\* A completed run with a 9-character page, an empty page and a remote call.
C2_Witness ==
    /\ pc = "done"
    /\ n_remote >= 1
    /\ \E j \in 1..Len(order) : Len(PageText(order[j])) = 9
    /\ \E j \in 1..Len(order) : PageText(order[j]) = <<>>

\* C3: once an extraction or a remote call has failed, no further extraction
\* or remote call is made, build_docx is not invoked and no document is
\* offered.
C3_FatalErrorAborts ==
    /\ [](error # NoError => (docx_bytes = NoDocx /\ ~download /\ in_flight = 0))
    /\ [][error # NoError =>
            /\ n_extract' = n_extract
            /\ n_remote' = n_remote
            /\ docx_bytes' = docx_bytes
            /\ download' = download]_vars

\* A remote call failed after a page was translated, with a file still to go.
C3_Witness ==
    /\ error # NoError
    /\ error.exc = "openai.APIError"
    /\ done >= 1
    /\ fidx < Len(pdf_cache)
    /\ Len(pdf_cache[fidx + 1][2]) >= 1

\* C4: the failure that aborts a run names the stage and the offending file,
\* and for a translation failure the page.
C4_FailureNamesFileAndPage ==
    pc = "failed" =>
        IF fidx = 0
        THEN /\ \E k \in DOMAIN error.traceback :
                    error.traceback[k] = "extract_pdf_pages_text"
             /\ uploads[Len(pdf_cache) + 1].name \in error.context
        ELSE /\ \E k \in DOMAIN error.traceback :
                    error.traceback[k] = "translate_text"
             /\ pdf_cache[fidx][1] \in error.context
             /\ PageLabel(pidx) \in error.context

\* a/b <= c/d for fractions with positive denominators
FracLeq(x, y) == x.num * y.den <= y.num * x.den

\* The value of the bar is in [0, 1], and is done/total_pages once a page is
\* processed.
ProgressTracksDone ==
    prog # NoProg =>
        /\ prog.den > 0
        /\ 0 <= prog.num
        /\ prog.num <= prog.den
        /\ done >= 1 => prog.num * total_pages = done * prog.den

ProgressNeverDecreases ==
    [][(prog # NoProg) => (prog' # NoProg /\ FracLeq(prog, prog'))]_vars

\* C5 as stated: the progress value is in [0, 1], never decreases, is k/N
\* after k of N pages, and is 1.0 at the end of every completed run.
C5_Original ==
    /\ [](ProgressTracksDone /\ (pc = "done" => prog.num = prog.den))
    /\ ProgressNeverDecreases

\* C5 amended: the progress value is in [0, 1], never decreases, is k/N after
\* k of N pages, and at the end of a completed run is 1.0 when the files hold
\* at least one page and 0.0 when they hold none.
C5_ProgressAmended ==
    /\ [](ProgressTracksDone
          /\ (pc = "done" =>
                 IF total_pages >= 1 THEN prog.num = prog.den ELSE prog.num = 0))
    /\ ProgressNeverDecreases

\* A completed run of three or more pages.
C5_Witness ==
    /\ pc = "done"
    /\ total_pages >= 3
    /\ done = total_pages
    /\ prog.num = prog.den

\* C6: with the credential missing or blank the script reports the error and
\* halts: no extraction, no remote call, no document, whatever the uploads and
\* the run button.
C6_MissingKeyHalts ==
    Strip(api_key) = <<>> =>
        /\ pc \in {"start", "stopped"}
        /\ pc = "stopped" => ui = "Missing OPENAI_API_KEY"
        /\ n_extract = 0
        /\ n_remote = 0
        /\ pdf_cache = <<>>
        /\ docx_bytes = NoDocx
        /\ ~download

\* A blank (not empty) credential, files uploaded, the button pressed, halted.
C6_Witness ==
    /\ pc = "stopped"
    /\ api_key = <<SP, LF>>
    /\ run_btn
    /\ Len(uploads) = 2
    /\ ui = "Missing OPENAI_API_KEY"

\* C10: nothing of the translation pass (remote call, placeholder decision,
\* progress bar) happens before every upload is extracted and total_pages is
\* their page count; pages are then decided in file order then page order,
\* with at most one remote call outstanding.
C10_ExtractionPrecedesTranslation ==
    /\ (pc \in {"translate", "remote", "done"} \/ n_remote > 0 \/ order # <<>>
            \/ prog # NoProg \/ done > 0) =>
          /\ Len(pdf_cache) = Len(uploads)
          /\ n_extract = Len(uploads)
          /\ total_pages = Len(AllPages(pdf_cache))
    /\ Len(order) <= Len(AllPages(pdf_cache))
    /\ order = SubSeq(AllPages(pdf_cache), 1, Len(order))
    /\ in_flight \in {0, 1}
    /\ in_flight = 1 =>
          /\ pc = "remote"
          /\ <<fidx, pidx>> = AllPages(pdf_cache)[Len(order) + 1]

\* A remote call outstanding for the second file's page, after two uploads
\* were extracted and the first file's pages were decided.
C10_Witness ==
    /\ pc = "remote"
    /\ in_flight = 1
    /\ Len(uploads) = 2
    /\ fidx = 2
    /\ Len(order) >= 2

====
